---------------------------- MODULE Spec2Model ----------------------------
(***************************************************************************)
(* Model of the chatty backend's real-time core: the Socket.IO event       *)
(* handlers of chatty/main.py (connect, disconnect, join, leave) and the   *)
(* create_message endpoint of chatty/routers/messages.py, which commits a  *)
(* message row and then emits new_message to the chatroom's room.          *)
(*                                                                         *)
(* Every handler is an asyncio coroutine running on one event loop         *)
(* (run.py: one worker by default).  A handler is interleaved with others  *)
(* only where it awaits; the only awaits are the socket server's           *)
(* enter_room / leave_room / emit, which read and update the in-memory     *)
(* room table without suspending before they have done so.  In             *)
(* create_message the database calls are synchronous, so nothing runs      *)
(* between db.commit() and the moment emit reads the room's participants.  *)
(* Each handler is therefore one atomic action; concurrency is the         *)
(* arbitrary order in which Next runs the handlers.                        *)
(***************************************************************************)
EXTENDS Integers, Sequences, FiniteSets, TLC

(***************************************************************************)
(* Universe of values                                                      *)
(***************************************************************************)

\* Session ids the socket server hands out, one per connection, never reused,
\* in the order it hands them out.
SidSeq == <<"s1", "s2", "s3">>

\* The ids (uuid4, database.py:35) given to the users and chatrooms that get
\* created, in creation order.
UserIdSeq == <<"u1">>
ChatroomIdSeq == <<"r1", "r2">>

\* A user id that no row ever has (for the 404 path and for join/leave,
\* which look nothing up).
GhostUser == "u9"

\* data.get(key) when the key is missing: Python's None.
Absent == "<None>"

\* Message texts a request can carry once the request schema has accepted it.
Texts == {"hello"}

\* Bound on the number of message rows committed in one run.
MaxMsgs == 2

\* Bound on the number of message rows committed in a run of SpecFanout.
MaxFanoutMsgs == 1

\* parent_message_id None.
NoParent == 0

SeqRange(s) == {s[i] : i \in 1..Len(s)}

Sids == SeqRange(SidSeq)

\* Room names: a chatroom id, or any other string a client puts in
\* chatroom_id -- here the session ids, which name the personal rooms the
\* socket server keeps for room=sid.
RoomNames == SeqRange(ChatroomIdSeq) \cup Sids

\* Values of the user_id / chatroom_id fields of a join/leave payload: the
\* field is missing, is the empty string, or is a string -- for chatroom_id
\* a chatroom id or the session id of the first connection.
UserIdValues == {Absent, ""} \cup SeqRange(UserIdSeq)
ChatroomIdValues == {Absent, ""} \cup SeqRange(ChatroomIdSeq) \cup {SidSeq[1]}

\* The payload of a join/leave event: a mapping with the two fields (either
\* may be missing), or something that is not a mapping at all.
Payloads ==
    [mapping : {TRUE}, user_id : UserIdValues, chatroom_id : ChatroomIdValues]
    \cup {[mapping |-> FALSE, user_id |-> Absent, chatroom_id |-> Absent]}

VARIABLES
    connected,   \* sids of the live connections
    closed,      \* sids whose connection has been disconnected
    rooms,       \* the socket server's room table: room name -> member sids
    users,       \* ids of the rows of table users
    chatrooms,   \* ids of the rows of table chatrooms
    messages,    \* rows of table messages, in commit order
    deleted,     \* ids of the message rows that have been deleted
    handles,     \* user id -> the handle stored in its row
    names,       \* chatroom id -> the name stored in its row
    participants,\* rows of table chatroom_participants
    schema,      \* what created the tables of the database
    removed,     \* per table, the ids of the rows that have been deleted
    flight,      \* the broadcast whose emit is being awaited, if any
    inbox,       \* per sid, the new_message payloads sent to it, in order
    last         \* the handler that ran last: its input, response, events

vars == <<connected, closed, rooms, users, chatrooms, messages, deleted,
          handles, names, participants, schema, removed, flight, inbox,
          last>>

\* The columns of the store that carry a uniqueness rule, the schema, the
\* ids that deleted rows have used up, and the broadcast being awaited.
keys == <<handles, names, participants, schema, removed, flight>>

\* No socket payload (connect, disconnect and the HTTP endpoints).
NoData == [mapping |-> FALSE, user_id |-> Absent, chatroom_id |-> Absent]

NoRun == [op |-> "none", sid |-> "", data |-> NoData, status |-> 0,
          msg |-> 0, sent |-> <<>>, changed |-> FALSE, raised |-> FALSE,
          body |-> <<>>]

\* The tables exist before the first request: made from the model classes
\* by create_tables() at startup, or made earlier by migration 0001, in
\* which case create_tables() leaves them as they are.
Schemas == {"models", "migration"}

InitApp ==
    /\ connected = {}
    /\ closed = {}
    /\ rooms = [r \in RoomNames |-> {}]
    /\ users = {}
    /\ chatrooms = {}
    /\ messages = <<>>
    /\ deleted = {}
    /\ handles = <<>>
    /\ names = <<>>
    /\ participants = {}
    /\ removed = [users |-> {}, chatrooms |-> {}, participants |-> {}]
    /\ flight = <<>>
    /\ inbox = [s \in Sids |-> <<>>]
    /\ last = NoRun

\* The default configuration: a development start drops the tables and
\* makes them again from the model classes.
Init == InitApp /\ schema = "models"

\* A start on a database whose tables are there already.
InitKeys == InitApp /\ schema \in Schemas


(***************************************************************************)
(* The socket server's room table (socketio.AsyncServer, main.py:20)       *)
(***************************************************************************)

\* Mutant of Participants: the emit ignores the room and goes to every sid.
ParticipantsAll(table, room) ==
    UNION {table[r] : r \in DOMAIN table}

\* The sids an emit to `room` is sent to: a copy of the room's member set,
\* taken when emit is called; a room nobody is in has no participants.
Participants(table, room) ==
    IF room \in DOMAIN table THEN table[room] ELSE {}

\* Mutant of EnterRoom: entering a room the sid is in takes it out again.
EnterRoomToggle(table, sid, room) ==
    [table EXCEPT ![room] = IF sid \in @ THEN @ \ {sid} ELSE @ \cup {sid}]

\* Mutant of EnterRoom: a sid is in one room at a time; entering a room
\* takes it out of the others.
EnterRoomExclusive(table, sid, room) ==
    [r \in DOMAIN table |->
        IF r = room THEN table[r] \cup {sid} ELSE table[r] \ {sid}]

\* sio.enter_room(sid, room): add sid to the room; a member stays a member.
EnterRoom(table, sid, room) ==
    [table EXCEPT ![room] = @ \cup {sid}]

\* Mutant of LeaveRoom: the sid stays in the room.
LeaveRoomKeep(table, sid, room) == table

\* sio.leave_room(sid, room): remove sid from the room; a non-member is
\* silently ignored.
LeaveRoom(table, sid, room) ==
    [table EXCEPT ![room] = @ \ {sid}]

\* On connect the server enters the new sid into the room named by the sid
\* itself; emit(..., room=sid) addresses that room.
ConnectSid(table, sid) ==
    EnterRoom(table, sid, sid)

\* Mutant of DropSid: dropping a connection resets the whole table.
DropSidResets(table, sid) ==
    [r \in DOMAIN table |-> {}]

\* Mutant of DropSid: only the personal room is cleaned up.
DropSidPersonalOnly(table, sid) ==
    [table EXCEPT ![sid] = @ \ {sid}]

\* On disconnect the server removes the sid from every room it is in.
DropSid(table, sid) ==
    [r \in DOMAIN table |-> table[r] \ {sid}]

\* sio.emit(event, data, room=room): one event, sent to the participants the
\* room has at that moment.
Emitted(table, event, data, room) ==
    [event |-> event, data |-> data, room |-> room,
     to |-> Participants(table, room)]

(***************************************************************************)
(* connect / disconnect (main.py:26-34)                                    *)
(***************************************************************************)

\* What `last` records of a handler run: the handler, the sid it ran for
\* ("" for an HTTP endpoint), the payload of the socket event or the request
\* body of create_message (NoData for the other handlers), the HTTP
\* status it answered with (0 for a socket event), the id of the row it
\* committed (0 for none), the events it emitted, in order, whether the run
\* changed the room table, whether an emit of the run raised, and the
\* message the response carries (the last two set by create_message, the
\* one handler that catches a raising emit and that answers with a message).
Run(op, sid, data, status, msg, sent) ==
    [op |-> op, sid |-> sid, data |-> data, status |-> status, msg |-> msg,
     sent |-> sent, changed |-> rooms' # rooms, raised |-> FALSE,
     body |-> <<>>]

\* The id generated next: the first of the sequence not yet used.
NextId(idseq, used) ==
    idseq[CHOOSE i \in 1..Len(idseq) :
              idseq[i] \notin used /\ \A j \in 1..(i - 1) : idseq[j] \in used]

\* A new connection gets the next session id.
Connect(sid) ==
    /\ \E i \in 1..Len(SidSeq) : SidSeq[i] \notin connected \cup closed
    /\ sid = NextId(SidSeq, connected \cup closed)
    /\ connected' = connected \cup {sid}
    /\ rooms' = ConnectSid(rooms, sid)
    /\ last' = Run("connect", sid, NoData, 0, 0, <<>>)
    /\ UNCHANGED <<closed, users, chatrooms, messages, deleted,
                 inbox, keys>>

Disconnect(sid) ==
    /\ sid \in connected
    /\ connected' = connected \ {sid}
    /\ closed' = closed \cup {sid}
    /\ rooms' = DropSid(rooms, sid)
    /\ last' = Run("disconnect", sid, NoData, 0, 0, <<>>)
    /\ UNCHANGED <<users, chatrooms, messages, deleted,
                 inbox, keys>>

\* The disconnect handler run once more for a connection that is gone
\* already: the same clean-up and the same log line.
DisconnectAgain(sid) ==
    /\ sid \in closed
    /\ connected' = connected \ {sid}
    /\ closed' = closed \cup {sid}
    /\ rooms' = DropSid(rooms, sid)
    /\ last' = Run("disconnect", sid, NoData, 0, 0, <<>>)
    /\ UNCHANGED <<users, chatrooms, messages, deleted,
                 inbox, keys>>

(***************************************************************************)
(* join / leave (main.py:36-80)                                            *)
(***************************************************************************)

\* Mutant of Falsy: the check is `v is None`.
FalsyNoneOnly(v) == v = Absent

\* Python's `not v` for the value of a payload field: None and the empty
\* string are falsy, every other string is truthy.
Falsy(v) == v \in {Absent, ""}

\* if not user_id or not chatroom_id
MissingField(data) == Falsy(data.user_id) \/ Falsy(data.chatroom_id)

RequiredMessage == "user_id and chatroom_id are required"
GenericMessage == "An error occurred"

\* The room the handlers address their answer to: room=sid.
AnswerRoom(sid) == sid

\* Mutant of JoinRooms: only the room of a chatroom that has a row is entered.
JoinRoomsExisting(table, sid, data) ==
    IF ~data.mapping \/ MissingField(data) \/ data.chatroom_id \notin chatrooms
    THEN table
    ELSE EnterRoom(table, sid, data.chatroom_id)

\* Mutant of JoinRooms: the room is entered before user_id is looked at.
JoinRoomsEarly(table, sid, data) ==
    IF ~data.mapping \/ Falsy(data.chatroom_id)
    THEN table
    ELSE EnterRoom(table, sid, data.chatroom_id)

\* data.get raises when data is not a mapping; the handler's except clause
\* catches it and emits the generic error.  The room is entered once both
\* fields are there, and not otherwise.
JoinRooms(table, sid, data) ==
    IF ~data.mapping \/ MissingField(data)
    THEN table
    ELSE EnterRoom(table, sid, data.chatroom_id)

\* Mutant of JoinSent: there is no except clause; the AttributeError of a
\* payload without .get leaves the handler and nothing is sent.
JoinSentUncaught(table, sid, data) ==
    IF ~data.mapping
    THEN <<>>
    ELSE IF MissingField(data)
    THEN <<Emitted(table, "error", [message |-> RequiredMessage], AnswerRoom(sid))>>
    ELSE <<Emitted(JoinRooms(table, sid, data), "joined",
                   [chatroom_id |-> data.chatroom_id], AnswerRoom(sid))>>

JoinSent(table, sid, data) ==
    IF ~data.mapping
    THEN <<Emitted(table, "error", [message |-> GenericMessage], AnswerRoom(sid))>>
    ELSE IF MissingField(data)
    THEN <<Emitted(table, "error", [message |-> RequiredMessage], AnswerRoom(sid))>>
    ELSE <<Emitted(JoinRooms(table, sid, data), "joined",
                   [chatroom_id |-> data.chatroom_id], AnswerRoom(sid))>>

Join(sid, data) ==
    /\ sid \in connected
    /\ rooms' = JoinRooms(rooms, sid, data)
    /\ last' = Run("join", sid, data, 0, 0, JoinSent(rooms, sid, data))
    /\ UNCHANGED <<connected, closed, users, chatrooms, messages, deleted,
                 inbox, keys>>

LeaveRooms(table, sid, data) ==
    IF ~data.mapping \/ MissingField(data)
    THEN table
    ELSE LeaveRoom(table, sid, data.chatroom_id)

\* Mutant of LeaveSent: leaving a room the sid is not in raises, and the
\* except clause answers with the generic error.
LeaveSentStrict(table, sid, data) ==
    IF ~data.mapping
    THEN <<Emitted(table, "error", [message |-> GenericMessage], AnswerRoom(sid))>>
    ELSE IF MissingField(data)
    THEN <<Emitted(table, "error", [message |-> RequiredMessage], AnswerRoom(sid))>>
    ELSE IF sid \notin Participants(table, data.chatroom_id)
    THEN <<Emitted(table, "error", [message |-> GenericMessage], AnswerRoom(sid))>>
    ELSE <<Emitted(LeaveRooms(table, sid, data), "left",
                   [chatroom_id |-> data.chatroom_id], AnswerRoom(sid))>>

LeaveSent(table, sid, data) ==
    IF ~data.mapping
    THEN <<Emitted(table, "error", [message |-> GenericMessage], AnswerRoom(sid))>>
    ELSE IF MissingField(data)
    THEN <<Emitted(table, "error", [message |-> RequiredMessage], AnswerRoom(sid))>>
    ELSE <<Emitted(LeaveRooms(table, sid, data), "left",
                   [chatroom_id |-> data.chatroom_id], AnswerRoom(sid))>>

Leave(sid, data) ==
    /\ sid \in connected
    /\ rooms' = LeaveRooms(rooms, sid, data)
    /\ last' = Run("leave", sid, data, 0, 0, LeaveSent(rooms, sid, data))
    /\ UNCHANGED <<connected, closed, users, chatrooms, messages, deleted,
                 inbox, keys>>

(***************************************************************************)
(* The store: users and chatrooms (routers/users.py, routers/chatrooms.py) *)
(***************************************************************************)

\* A handle or name as the client sends it: a string, written as the
\* sequence of its characters.
RawKeys ==
    {<<"a">>, <<"A">>, <<"a", " ">>, <<"b">>, <<"a", "!">>, <<" ">>}

\* str.lower(), character by character.
Lower(c) == CASE c = "A" -> "a" [] c = "B" -> "b" [] OTHER -> c

LowerAll(v) == [i \in 1..Len(v) |-> Lower(v[i])]

\* str.strip(): whitespace is removed from both ends, not from the middle.
Whitespace == {" "}

RECURSIVE StripLeft(_)
StripLeft(v) ==
    IF v # <<>> /\ Head(v) \in Whitespace THEN StripLeft(Tail(v)) ELSE v

RECURSIVE StripRight(_)
StripRight(v) ==
    IF v # <<>> /\ v[Len(v)] \in Whitespace
    THEN StripRight(SubSeq(v, 1, Len(v) - 1))
    ELSE v

Strip(v) == StripRight(StripLeft(v))

\* re.match(r'^[a-z0-9_]+$', v), on the characters in use.
KeyAlphabet == {"a", "b", "_"}
MatchesKey(v) == v # <<>> /\ \A i \in 1..Len(v) : v[i] \in KeyAlphabet

\* v.lower().strip(), as the request validators and the models compute it.
Normalized(v) == Strip(LowerAll(v))

\* UserCreateRequest.validate_handle / ChatroomCreateRequest.validate_name:
\* a blank or ill-formed key is refused (422, the handler does not run);
\* otherwise the handler gets the normalized key.
SchemaAcceptsKey(v) == Strip(v) # <<>> /\ MatchesKey(Normalized(v))
SchemaKey(v) == Normalized(v)

\* User._validate_and_normalize_handle / Chatroom._validate_and_normalize_name
\* on what the schema passed on: normalized once more and stored.
StoredKey(v) == Normalized(SchemaKey(v))

\* Some row of the column holds `key`.
Taken(column, key) == \E id \in DOMAIN column : column[id] = key

\* The uniqueness rules of the tables.  The model classes declare three:
\* users.handle, chatrooms.name and the pair (user_id, chatroom_id) of
\* chatroom_participants; migration 0001 creates the first only.
UniqueRules(made) ==
    IF made = "models"
    THEN {"users.handle", "chatrooms.name", "unique_user_chatroom"}
    ELSE {"users.handle"}

\* The column with one more row.
WithRow(column, id, key) ==
    [x \in DOMAIN column \cup {id} |-> IF x = id THEN key ELSE column[x]]

\* create_user: the row is added unless the database refuses it because the
\* handle is taken (IntegrityError, 409).
CreateUserRow(idseq, raw) ==
    /\ SchemaAcceptsKey(raw)
    /\ LET handle == StoredKey(raw)
           unique == "users.handle" \in UniqueRules(schema)
           status == IF unique /\ Taken(handles, handle) THEN 409 ELSE 201
           used == users \cup removed.users
           id == NextId(idseq, used)
       IN /\ status = 201 => \E i \in 1..Len(idseq) : idseq[i] \notin used
          /\ users' = IF status = 201 THEN users \cup {id} ELSE users
          /\ handles' = IF status = 201 THEN WithRow(handles, id, handle)
                                        ELSE handles
          /\ UNCHANGED <<connected, closed, rooms, chatrooms, messages,
                         deleted, inbox, names, participants, schema,
                         removed, flight>>
          /\ last' = Run("create_user", "", [key |-> raw], status, 0, <<>>)

\* create_chatroom: the row is added unless the database refuses it because
\* the name is taken (IntegrityError, 409), which it does when the table
\* has the uniqueness rule.
CreateChatroomRow(idseq, raw) ==
    /\ SchemaAcceptsKey(raw)
    /\ LET name == StoredKey(raw)
           unique == "chatrooms.name" \in UniqueRules(schema)
           status == IF unique /\ Taken(names, name) THEN 409 ELSE 201
           used == chatrooms \cup removed.chatrooms
           id == NextId(idseq, used)
       IN /\ status = 201 => \E i \in 1..Len(idseq) : idseq[i] \notin used
          /\ chatrooms' = IF status = 201 THEN chatrooms \cup {id}
                                          ELSE chatrooms
          /\ names' = IF status = 201 THEN WithRow(names, id, name) ELSE names
          /\ UNCHANGED <<connected, closed, rooms, users, messages, deleted,
                         inbox, handles, participants, schema, removed,
                         flight>>
          /\ last' = Run("create_chatroom", "", [key |-> raw], status, 0, <<>>)

\* The keys of the users and chatrooms the other handlers work with, in
\* creation order.
UserKeySeq == <<<<"a">>>>
ChatroomKeySeq == <<<<"a">>, <<"b">>>>

\* create_user with a valid handle nobody has: one more row, answered 201.
CreateUser ==
    /\ \E i \in 1..Len(UserIdSeq) :
          UserIdSeq[i] \notin users \cup removed.users
    /\ CreateUserRow(UserIdSeq, UserKeySeq[Cardinality(users \cup removed.users) + 1])

\* create_chatroom with a valid name nobody has: one more row, answered 201.
CreateChatroom ==
    /\ \E i \in 1..Len(ChatroomIdSeq) :
          ChatroomIdSeq[i] \notin chatrooms \cup removed.chatrooms
    /\ CreateChatroomRow(ChatroomIdSeq,
                         ChatroomKeySeq[Cardinality(chatrooms
                                            \cup removed.chatrooms) + 1])

\* Some row of chatroom_participants holds the pair.
PairTaken(rows, user_id, chatroom_id) ==
    \E p \in rows : p.user_id = user_id /\ p.chatroom_id = chatroom_id

\* The ids a participant request can name: those of the rows and one of no
\* row.
GhostChatroom == "r9"
ParticipantUserIds(idseq) == SeqRange(idseq) \cup {GhostUser}
ParticipantChatroomIds == SeqRange(ChatroomIdSeq) \cup {GhostChatroom}

MaxParticipants == 2

\* create_chatroom_participant: 404 without the user or the chatroom row;
\* then the insert, which the database refuses (IntegrityError, 409) when
\* the table has the pair's uniqueness rule and a row holds the pair.
ParticipantStatus(made, rows, user_id, chatroom_id) ==
    IF user_id \notin users \/ chatroom_id \notin chatrooms THEN 404
    ELSE IF /\ "unique_user_chatroom" \in UniqueRules(made)
            /\ PairTaken(rows, user_id, chatroom_id) THEN 409
    ELSE 201

CreateParticipant(user_id, chatroom_id) ==
    /\ LET status == ParticipantStatus(schema, participants, user_id,
                                       chatroom_id)
           made == Cardinality(participants)
                       + Cardinality(removed.participants)
           row == [id |-> made + 1,
                   user_id |-> user_id, chatroom_id |-> chatroom_id]
       IN /\ status = 201 => made < MaxParticipants
          /\ participants' = IF status = 201 THEN participants \cup {row}
                                             ELSE participants
          /\ UNCHANGED <<connected, closed, rooms, users, chatrooms,
                         messages, deleted, inbox, handles, names, schema,
                         removed, flight>>
          /\ last' = Run("create_chatroom_participant", "",
                         [user_id |-> user_id, chatroom_id |-> chatroom_id],
                         status, 0, <<>>)

(***************************************************************************)
(* The delete endpoints of users, chatrooms and chatroom_participants      *)
(***************************************************************************)

\* The rows of chatroom_participants and of messages whose `column` is `id`.
ParticipantRowsOf(column, id) == {p \in participants : p[column] = id}
MessageRowsOf(column, id) ==
    {i \in 1..Len(messages) : messages[i][column] = id}

\* db.delete(row); db.commit() on a users or chatrooms row.  The row's
\* relationship chatroom_participants has no delete cascade, so the session
\* first sets the foreign key of the row's participants to NULL, which the
\* column (nullable=False) refuses: IntegrityError, which the handler does
\* not catch (500, nothing is written).  Messages hang on no relationship:
\* the row's DELETE fails (500) only where the database enforces the
\* foreign keys of messages.
OwnerDeleteStatus(exists, column, id, enforced) ==
    IF ~exists THEN 404
    ELSE IF ParticipantRowsOf(column, id) # {} THEN 500
    ELSE IF enforced /\ MessageRowsOf(column, id) # {} THEN 500
    ELSE 200

\* The column without the row `id`.
WithoutRow(column, id) == [x \in DOMAIN column \ {id} |-> column[x]]

DeleteUser(user_id, enforced) ==
    /\ LET status == OwnerDeleteStatus(user_id \in users, "user_id", user_id,
                                       enforced)
       IN /\ users' = IF status = 200 THEN users \ {user_id} ELSE users
          /\ handles' = IF status = 200 THEN WithoutRow(handles, user_id)
                                        ELSE handles
          /\ removed' = IF status = 200
                        THEN [removed EXCEPT !.users = @ \cup {user_id}]
                        ELSE removed
          /\ UNCHANGED <<connected, closed, rooms, chatrooms, messages,
                         deleted, inbox, names, participants, schema,
                         flight>>
          /\ last' = Run("delete_user", "", [user_id |-> user_id], status, 0,
                         <<>>)

DeleteChatroom(chatroom_id, enforced) ==
    /\ LET status == OwnerDeleteStatus(chatroom_id \in chatrooms,
                                       "chatroom_id", chatroom_id, enforced)
       IN /\ chatrooms' = IF status = 200 THEN chatrooms \ {chatroom_id}
                                          ELSE chatrooms
          /\ names' = IF status = 200 THEN WithoutRow(names, chatroom_id)
                                      ELSE names
          /\ removed' = IF status = 200
                        THEN [removed EXCEPT !.chatrooms = @ \cup {chatroom_id}]
                        ELSE removed
          /\ UNCHANGED <<connected, closed, rooms, users, messages, deleted,
                         inbox, handles, participants, schema, flight>>
          /\ last' = Run("delete_chatroom", "", [chatroom_id |-> chatroom_id],
                         status, 0, <<>>)

\* Mutant of RoomsAfterRow: deleting the row empties the chatroom's room.
RoomsAfterRowEvict(table, row) ==
    [r \in DOMAIN table |-> IF r = row.chatroom_id THEN {} ELSE table[r]]

\* The room table after a participant row has been deleted: the handler
\* talks to the database only, never to the socket server.
RoomsAfterRow(table, row) == table

\* db.delete(participant); db.commit() for the rows `found` the query
\* matched: .first() takes one of them (there is no ORDER BY), 404 when
\* there is none.
ParticipantDeleted(op, data, found) ==
    /\ \/ /\ found = {}
          /\ UNCHANGED <<participants, removed>>
          /\ UNCHANGED rooms
          /\ last' = Run(op, "", data, 404, 0, <<>>)
       \/ \E p \in found :
            /\ participants' = participants \ {p}
            /\ removed' = [removed EXCEPT !.participants = @ \cup {p.id}]
            /\ rooms' = RoomsAfterRow(rooms, p)
            /\ last' = Run(op, "", data, 200, 0, <<>>)
    /\ UNCHANGED <<connected, closed, users, chatrooms, messages, deleted,
                   inbox, handles, names, schema, flight>>

ParticipantIds == 1..(MaxParticipants + 1)

\* delete_chatroom_participant: the row with the id.
DeleteParticipant(id) ==
    ParticipantDeleted("delete_chatroom_participant", [id |-> id],
                       {p \in participants : p.id = id})

\* remove_user_from_chatroom: a row of the pair.
RemoveUserFromChatroom(user_id, chatroom_id) ==
    ParticipantDeleted("remove_user_from_chatroom",
                       [user_id |-> user_id, chatroom_id |-> chatroom_id],
                       {p \in participants : /\ p.user_id = user_id
                                             /\ p.chatroom_id = chatroom_id})

(***************************************************************************)
(* create_message (routers/messages.py:33-113)                             *)
(***************************************************************************)

\* The request bodies a client can post.  parent_message_id NoParent is a
\* request that leaves the field out.
MessageIds == 1..(MaxMsgs + 1)

Requests ==
    [message_text : Texts,
     user_id : SeqRange(UserIdSeq) \cup {GhostUser},
     chatroom_id : SeqRange(ChatroomIdSeq),
     is_reply : BOOLEAN,
     parent_message_id : {NoParent} \cup MessageIds]

\* MessageCreateRequest's validator of parent_message_id: it runs when the
\* field is given and refuses a parent on a request that is no reply (the
\* request is answered 422 and the handler does not run).
SchemaAccepts(req) ==
    ~(~req.is_reply /\ req.parent_message_id # NoParent)

MessageExists(rows, id) == \E i \in 1..Len(rows) : rows[i].id = id

\* Message.__init__: a reply needs a parent, and only a reply has one.
InitRaises(req) ==
    \/ req.is_reply /\ req.parent_message_id = NoParent
    \/ ~req.is_reply /\ req.parent_message_id # NoParent

\* Mutant of CreateStatus: the parent of a reply is not looked up.
CreateStatusNoParentCheck(req) ==
    IF req.user_id \notin users THEN 404
    ELSE IF req.chatroom_id \notin chatrooms THEN 404
    ELSE IF InitRaises(req) THEN 400
    ELSE 201

\* Mutant of CreateStatus: the checks see the tables as they were before
\* the deletes that have since taken effect.
CreateStatusStale(req) ==
    IF req.user_id \notin users \cup removed.users THEN 404
    ELSE IF req.chatroom_id \notin chatrooms \cup removed.chatrooms THEN 404
    ELSE IF /\ req.is_reply
            /\ req.parent_message_id # NoParent
            /\ ~MessageExists(messages, req.parent_message_id)
            /\ req.parent_message_id \notin deleted THEN 404
    ELSE IF InitRaises(req) THEN 400
    ELSE 201

\* The status create_message answers with: the three existence checks in
\* order (404), then the model's constructor (ValueError, 400), else 201.
CreateStatus(req) ==
    IF req.user_id \notin users THEN 404
    ELSE IF req.chatroom_id \notin chatrooms THEN 404
    ELSE IF /\ req.is_reply
            /\ req.parent_message_id # NoParent
            /\ ~MessageExists(messages, req.parent_message_id) THEN 404
    ELSE IF InitRaises(req) THEN 400
    ELSE 201

\* The id (uuid4) of a new message row: one that no row has or ever had.
\* Ids are numbered in the order they are generated.
FreshId(rows, gone) == Len(rows) + Cardinality(gone) + 1

\* The row db.add/db.commit stores; the id is fresh.
NewRow(req, id) ==
    [id |-> id,
     message_text |-> req.message_text,
     user_id |-> req.user_id,
     chatroom_id |-> req.chatroom_id,
     is_reply |-> req.is_reply,
     parent_message_id |-> req.parent_message_id]

\* MessageResponse.from_orm(db_message): the response takes the row's
\* attributes, field by field.
FromOrm(row) ==
    [id |-> row.id,
     message_text |-> row.message_text,
     user_id |-> row.user_id,
     chatroom_id |-> row.chatroom_id,
     is_reply |-> row.is_reply,
     parent_message_id |-> row.parent_message_id]

\* Mutant of Serialized: the payload leaves the parent out.
SerializedNoParent(row) == [row EXCEPT !.parent_message_id = NoParent]

\* message_response.model_dump(mode='json'): the fields of the response;
\* strings, booleans and None are their own JSON form.
Serialized(row) ==
    [id |-> row.id,
     message_text |-> row.message_text,
     user_id |-> row.user_id,
     chatroom_id |-> row.chatroom_id,
     is_reply |-> row.is_reply,
     parent_message_id |-> row.parent_message_id]

\* Mutant of MessageRoom: the event goes to the room named by the poster.
MessageRoomByUser(payload) == payload.user_id

\* room=serialized_message['chatroom_id']
MessageRoom(payload) == payload.chatroom_id

\* Mutant of MessageSent: the emit does not depend on the outcome.
MessageSentAlways(table, status, payload) ==
    <<Emitted(table, "new_message", payload, payload.chatroom_id)>>

\* The events create_message emits once it has answered `status`.
MessageSent(table, status, payload) ==
    IF status = 201
    THEN <<Emitted(table, "new_message", payload, MessageRoom(payload))>>
    ELSE <<>>

\* Mutant of Committed: the row is stored twice.
CommittedTwice(rows, status, row) ==
    IF status = 201 THEN Append(Append(rows, row), row) ELSE rows

\* The rows of the table after the request: one more on 201, else as before.
Committed(rows, status, row) ==
    IF status = 201 THEN Append(rows, row) ELSE rows

\* Mutant of Deliver: the payload is sent a second time.
DeliverTwice(stream, payload) == Append(Append(stream, payload), payload)

\* Mutant of Deliver: the payload overtakes what was sent before.
DeliverFront(stream, payload) == <<payload>> \o stream

\* A connection's stream after an emit: the payload goes behind what was
\* sent to it before.
Deliver(stream, payload) == Append(stream, payload)

Delivered(boxes, sent) ==
    [s \in DOMAIN boxes |->
        IF sent # <<>> /\ s \in sent[1].to
        THEN Deliver(boxes[s], sent[1].data)
        ELSE boxes[s]]

\* How `await sio.emit(...)` ends: it completes, having sent the event to
\* every participant, or it raises, having sent it to the participants in
\* `reached` only (any part of them, none and all included).
EmitCompletes == [raises |-> FALSE, reached |-> {}]
EmitOutcomes ==
    {EmitCompletes} \cup {[raises |-> TRUE, reached |-> S] : S \in SUBSET Sids}

\* The events of the run as they went out under `outcome`.
Reached(sent, outcome) ==
    IF sent # <<>> /\ outcome.raises
    THEN <<[sent[1] EXCEPT !.to = outcome.reached]>>
    ELSE sent

\* Mutant of AfterEmit: an emit that raised undoes the write.
AfterEmitRollback(rows, before, raised) == IF raised THEN before ELSE rows

\* The table after the emit: `except Exception` only logs, the committed
\* row is not touched.
AfterEmit(rows, before, raised) == rows

\* Mutant of EmitStatus: an emit that raised fails the request.
EmitStatusFails(status, raised) == IF raised THEN 500 ELSE status

\* The status answered after the emit: `return message_response` follows
\* the try/except around the emit either way.
EmitStatus(status, raised) == status

CreateMessage(req, outcome) ==
    /\ SchemaAccepts(req)
    /\ UNCHANGED <<connected, closed, rooms, users, chatrooms, deleted, keys>>
    /\ LET status == CreateStatus(req)
           id == FreshId(messages, deleted)
           row == NewRow(req, id)
           response == FromOrm(row)
           emitted == MessageSent(rooms, status, Serialized(response))
           raised == emitted # <<>> /\ outcome.raises
           sent == Reached(emitted, outcome)
       IN /\ status = 201 => Len(messages) + Cardinality(deleted) < MaxMsgs
          /\ IF emitted = <<>>
             THEN outcome = EmitCompletes
             ELSE outcome.raises => outcome.reached \subseteq emitted[1].to
          /\ messages' =
                 AfterEmit(Committed(messages, status, row), messages, raised)
          /\ inbox' = Delivered(inbox, sent)
          /\ last' = [Run("create_message", "", req,
                          EmitStatus(status, raised),
                          IF status = 201 THEN id ELSE 0, sent)
                          EXCEPT !.raised = raised,
                                 !.body = IF EmitStatus(status, raised) = 201
                                          THEN <<response>> ELSE <<>>]

(***************************************************************************)
(* create_message with the await of its emit spelled out                   *)
(*                                                                         *)
(* `await sio.emit(...)` (routers/messages.py:100) is where the handler    *)
(* gives up the event loop: everything before it (checks, commit, the      *)
(* room's members read by the emit) is one step, the sends to the members  *)
(* follow one by one, and socket events of other connections can run in    *)
(* between.                                                                *)
(***************************************************************************)

\* Mutant of SendOutcome: a send to a connection that is gone raises.
SendOutcomeStrict(sid, live) ==
    [delivered |-> sid \in live, raises |-> sid \notin live]

\* One send of the emit: the event reaches the connection if it is still
\* there; a send to a connection that is gone is dropped without an error.
SendOutcome(sid, live) ==
    [delivered |-> sid \in live, raises |-> FALSE]

\* The handler up to the await: the row is committed and the emit has read
\* the members of the room.  A request that is not answered 201 never gets
\* to the emit (CreateMessage covers it).
BeginMessage(req) ==
    /\ SchemaAccepts(req)
    /\ CreateStatus(req) = 201
    /\ IF flight = <<>> THEN TRUE ELSE flight[1].done
    /\ Len(messages) + Cardinality(deleted) < MaxFanoutMsgs
    /\ LET id == FreshId(messages, deleted)
           row == NewRow(req, id)
           response == FromOrm(row)
           emitted == MessageSent(rooms, 201, Serialized(response))
       IN /\ messages' = Committed(messages, 201, row)
          /\ flight' = <<[req |-> req, id |-> id, response |-> response,
                          emitted |-> emitted[1],
                          pending |-> emitted[1].to, reached |-> {},
                          raised |-> FALSE, done |-> FALSE]>>
          /\ UNCHANGED rooms
          /\ last' = Run("commit", "", req, 0, id, <<>>)
    /\ UNCHANGED <<connected, closed, users, chatrooms, deleted, inbox,
                   handles, names, participants, schema, removed>>

\* One send of the awaited emit.  A send that raises ends the emit: the
\* members still pending are not sent to.
SendMessage(sid) ==
    /\ flight # <<>>
    /\ ~flight[1].done
    /\ sid \in flight[1].pending
    /\ LET outcome == SendOutcome(sid, connected)
       IN /\ inbox' = IF outcome.delivered
                      THEN [inbox EXCEPT
                              ![sid] = Deliver(@, flight[1].emitted.data)]
                      ELSE inbox
          /\ flight' = <<[flight[1] EXCEPT
                  !.pending = IF outcome.raises THEN {} ELSE @ \ {sid},
                  !.reached = IF outcome.delivered THEN @ \cup {sid} ELSE @,
                  !.raised = outcome.raises]>>
          /\ UNCHANGED rooms
          /\ last' = Run("send", sid, flight[1].req, 0, flight[1].id, <<>>)
    /\ UNCHANGED <<connected, closed, users, chatrooms, messages, deleted,
                   handles, names, participants, schema, removed>>

\* The handler after the await: an exception of the emit is logged, and the
\* response is returned.
EndMessage ==
    /\ flight # <<>>
    /\ ~flight[1].done
    /\ flight[1].pending = {}
    /\ LET f == flight[1]
           status == EmitStatus(201, f.raised)
       IN /\ flight' = <<[f EXCEPT !.done = TRUE]>>
          /\ UNCHANGED rooms
          /\ last' = [Run("create_message", "", f.req, status, f.id,
                          <<[f.emitted EXCEPT !.to = f.reached]>>)
                          EXCEPT !.raised = f.raised,
                                 !.body = IF status = 201 THEN <<f.response>>
                                                          ELSE <<>>]
    /\ UNCHANGED <<connected, closed, users, chatrooms, messages, deleted,
                   inbox, handles, names, participants, schema, removed>>

(***************************************************************************)
(* delete_message (routers/messages.py:181-210)                            *)
(***************************************************************************)

\* The rows that name `id` as their parent.
HasReplies(rows, id) ==
    \E i \in 1..Len(rows) : rows[i].parent_message_id = id

\* Whether the database enforces the foreign keys of the tables.  The
\* default database is SQLite (config.py:24-27), whose connections leave
\* foreign keys unenforced unless told otherwise, and the code never tells
\* it; with DATABASE_URL set to another database they are enforced.
ForeignKeys == BOOLEAN

\* The status delete_message answers with: 404 when no row has the id; 500
\* when db.commit() raises IntegrityError, which the handler does not catch
\* (a row still refers to the message and the database enforces the
\* reference); else 200.
DeleteStatus(rows, id, enforced) ==
    IF ~MessageExists(rows, id) THEN 404
    ELSE IF enforced /\ HasReplies(rows, id) THEN 500
    ELSE 200

\* The table without the row `id`; the other rows are left as they are.
Without(rows, id) == SelectSeq(rows, LAMBDA row : row.id # id)

DeleteMessage(id, enforced) ==
    /\ UNCHANGED <<connected, closed, rooms, users, chatrooms, inbox, keys>>
    /\ LET status == DeleteStatus(messages, id, enforced)
       IN /\ messages' = IF status = 200 THEN Without(messages, id)
                                          ELSE messages
          /\ deleted' = IF status = 200 THEN deleted \cup {id} ELSE deleted
          /\ last' = Run("delete_message", "", NoData, status, 0, <<>>)

(***************************************************************************)
(* The system                                                              *)
(***************************************************************************)

\* The socket events of the connections `sids` with payloads from `payloads`.
SocketStep(sids, payloads) ==
    \/ \E sid \in sids : Connect(sid)
    \/ \E sid \in sids : Disconnect(sid)
    \/ \E sid \in sids, data \in payloads : Join(sid, data)
    \/ \E sid \in sids, data \in payloads : Leave(sid, data)

\* The payloads the smoke tests' client sends for rows that exist: a user id
\* and a chatroom id.
ChatroomPayloads ==
    [mapping : {TRUE}, user_id : SeqRange(UserIdSeq),
     chatroom_id : SeqRange(ChatroomIdSeq)]

\* The HTTP endpoints with the message requests `requests`, the emit ending
\* in one of `outcomes`.
StoreStep(requests, outcomes) ==
    \/ CreateUser
    \/ CreateChatroom
    \/ \E req \in requests, outcome \in outcomes : CreateMessage(req, outcome)

\* Two connections joining and leaving the chatrooms while users, chatrooms
\* and messages are created.
TwoSids == {"s1", "s2"}

\* The requests of the one user id that name no parent message (the user has
\* no row until create_user has run).
RootRequests ==
    {req \in Requests :
        req.parent_message_id = NoParent /\ req.user_id \in SeqRange(UserIdSeq)}

Next ==
    \/ SocketStep(TwoSids, ChatroomPayloads)
    \/ StoreStep(RootRequests, EmitOutcomes)

Spec == Init /\ [][Next]_vars

\* Three connections and the messages an existing user posts to the first
\* chatroom.
FanoutRequests ==
    {req \in Requests :
        /\ req.user_id \in SeqRange(UserIdSeq)
        /\ req.chatroom_id = ChatroomIdSeq[1]
        /\ ~req.is_reply
        /\ req.parent_message_id = NoParent}

NextFanout ==
    \/ SocketStep(Sids, ChatroomPayloads)
    \/ CreateUser
    \/ CreateChatroom
    \/ \E req \in FanoutRequests :
          Len(messages) < MaxFanoutMsgs /\ CreateMessage(req, EmitCompletes)

SpecFanout == Init /\ [][NextFanout]_vars

\* The socket server alone, with every payload a client can send, among them
\* chatroom ids that are the session id of a connection.
NextRooms == SocketStep(TwoSids, Payloads)

SpecRooms == Init /\ [][NextRooms]_vars

\* One connection, and the store with replies and deletions: the request
\* bodies for the first chatroom (roots and replies, by a user with or
\* without a row, before and after the chatroom has its row), and
\* delete_message for every id.
OneSid == {SidSeq[1]}

FirstRoomPayloads ==
    {data \in ChatroomPayloads : data.chatroom_id = ChatroomIdSeq[1]}

FirstRoomRequests ==
    {req \in Requests : req.chatroom_id = ChatroomIdSeq[1]}

NextStore ==
    \/ SocketStep(OneSid, FirstRoomPayloads)
    \/ StoreStep(FirstRoomRequests, {EmitCompletes})
    \/ \E id \in MessageIds, enforced \in ForeignKeys :
          DeleteMessage(id, enforced)

SpecStore == Init /\ [][NextStore]_vars

\* The endpoints that insert into a table with a uniqueness rule, with two
\* users, every key a client can send, and either schema.
KeyUserIdSeq == <<"u1", "u2">>

NextKeys ==
    \/ \E raw \in RawKeys : CreateUserRow(KeyUserIdSeq, raw)
    \/ \E raw \in RawKeys : CreateChatroomRow(ChatroomIdSeq, raw)
    \/ \E user_id \in ParticipantUserIds(KeyUserIdSeq),
          chatroom_id \in ParticipantChatroomIds :
            CreateParticipant(user_id, chatroom_id)

SpecKeys == InitKeys /\ [][NextKeys]_vars

\* The store with its delete endpoints: one user, one chatroom, the
\* messages (roots and replies) and participant rows of the chatroom, on
\* the tables the app makes at startup.  Each handler runs from its first
\* line to its commit without giving up the event loop, so the requests
\* interleave handler by handler.
OneChatroomIdSeq == <<ChatroomIdSeq[1]>>

NextDelete ==
    \/ CreateUser
    \/ \E raw \in {ChatroomKeySeq[1]} :
          CreateChatroomRow(OneChatroomIdSeq, raw)
    \/ \E user_id \in ParticipantUserIds(UserIdSeq) :
          CreateParticipant(user_id, ChatroomIdSeq[1])
    \/ \E req \in FirstRoomRequests : CreateMessage(req, EmitCompletes)
    \/ \E user_id \in ParticipantUserIds(UserIdSeq),
          enforced \in ForeignKeys : DeleteUser(user_id, enforced)
    \/ \E enforced \in ForeignKeys :
          DeleteChatroom(ChatroomIdSeq[1], enforced)
    \/ \E id \in MessageIds, enforced \in ForeignKeys :
          DeleteMessage(id, enforced)
    \/ \E id \in ParticipantIds : DeleteParticipant(id)
    \/ \E user_id \in SeqRange(UserIdSeq) :
          RemoveUserFromChatroom(user_id, ChatroomIdSeq[1])

SpecDelete == Init /\ [][NextDelete]_vars

\* Three connections joining, leaving and disconnecting while the posts to
\* the first chatroom are being broadcast.
NextFlight ==
    \/ SocketStep(Sids, FirstRoomPayloads)
    \/ CreateUser
    \/ CreateChatroom
    \/ \E req \in FanoutRequests : BeginMessage(req)
    \/ \E sid \in Sids : SendMessage(sid)
    \/ EndMessage

SpecFlight == Init /\ [][NextFlight]_vars

\* Two connections joining and leaving the first chatroom while rows of
\* chatroom_participants are created and deleted.
NextLive ==
    \/ SocketStep(TwoSids, FirstRoomPayloads)
    \/ CreateUser
    \/ \E raw \in {ChatroomKeySeq[1]} :
          CreateChatroomRow(OneChatroomIdSeq, raw)
    \/ \E user_id \in ParticipantUserIds(UserIdSeq) :
          CreateParticipant(user_id, ChatroomIdSeq[1])
    \/ \E id \in ParticipantIds : DeleteParticipant(id)
    \/ \E user_id \in SeqRange(UserIdSeq) :
          RemoveUserFromChatroom(user_id, ChatroomIdSeq[1])

SpecLive == Init /\ [][NextLive]_vars

\* Three connections and the two chatrooms, with disconnects that come a
\* second time.
NextDrop ==
    \/ SocketStep(Sids, ChatroomPayloads)
    \/ \E sid \in Sids : DisconnectAgain(sid)

SpecDrop == Init /\ [][NextDrop]_vars

(***************************************************************************)
(* Properties                                                              *)
(***************************************************************************)

\* The payload a step appends to the stream of sid s, if it appends one.
Received(s) == inbox'[s] # inbox[s]
NewPayload(s) == inbox'[s][Len(inbox'[s])]

RowOf(rows, id) == rows[CHOOSE k \in 1..Len(rows) : rows[k].id = id]

\* C1: no speculative delivery.  A step that emits new_message or delivers a
\* payload to a connection is a create_message that answered 201, every
\* payload it emits or delivers is the one of the row that step committed,
\* and a create_message that answers 404 or 400 emits and delivers nothing
\* and commits nothing.
C1_NoSpeculativeDelivery ==
    [][/\ ((\E s \in Sids : Received(s))
              \/ (last'.op = "create_message" /\ last'.sent # <<>>))
          => /\ last'.op = "create_message"
             /\ last'.status = 201
             /\ Len(messages') = Len(messages) + 1
             /\ messages'[Len(messages')].id = last'.msg
             /\ \A i \in 1..Len(last'.sent) :
                   /\ last'.sent[i].event = "new_message"
                   /\ last'.sent[i].data.id = last'.msg
             /\ \A s \in Sids :
                   Received(s) =>
                       /\ inbox'[s] = Append(inbox[s], NewPayload(s))
                       /\ NewPayload(s).id = last'.msg
       /\ (last'.op = "create_message" /\ last'.status \in {400, 404})
          => /\ last'.sent = <<>>
             /\ inbox' = inbox
             /\ messages' = messages
      ]_vars

\* C1 witness: a create_message answered 201, its row is committed and its
\* new_message has reached a connection.
C1_Witness ==
    /\ last.op = "create_message"
    /\ last.status = 201
    /\ MessageExists(messages, last.msg)
    /\ \E s \in Sids :
          /\ inbox[s] # <<>>
          /\ inbox[s][Len(inbox[s])].id = last.msg

\* C2: delivery targeting.  A connection that a step delivers a new_message
\* to is a member, at that moment, of the room named by the payload's
\* chatroom_id; and with exactly {a, b} in one room and exactly {c} in
\* another, a post to the first is delivered to exactly {a, b}.
C2_DeliveryTargeting ==
    [][/\ \A s \in Sids :
             Received(s) => s \in rooms[NewPayload(s).chatroom_id]
       /\ (last'.op = "create_message" /\ last'.status = 201
              /\ messages' # messages)
          => LET r1 == messages'[Len(messages')].chatroom_id
             IN (/\ Cardinality(rooms[r1]) = 2
                 /\ \E r2 \in RoomNames \ {r1} :
                        /\ Cardinality(rooms[r2]) = 1
                        /\ rooms[r2] \cap rooms[r1] = {})
                => {s \in Sids : Received(s)} = rooms[r1]
      ]_vars

\* C2 witness: s1 and s2 are the members of r1, s3 the member of r2, and a
\* message posted to r1 has reached s1 and s2 and not s3.
C2_Witness ==
    /\ rooms["r1"] = {"s1", "s2"}
    /\ rooms["r2"] = {"s3"}
    /\ last.op = "create_message"
    /\ last.status = 201
    /\ RowOf(messages, last.msg).chatroom_id = "r1"
    /\ last.sent[1].to = {"s1", "s2"}
    /\ \A s \in {"s1", "s2"} :
          inbox[s] # <<>> /\ inbox[s][Len(inbox[s])].id = last.msg
    /\ inbox["s3"] = <<>>

C5_DisconnectCleanup ==
    [][\A s \in closed' :
          /\ \A r \in RoomNames : s \notin rooms'[r]
          /\ s \in closed => inbox'[s] = inbox[s]
      ]_vars

\* C5 witness: a connection received the first message of a chatroom (it
\* was a member), was disconnected, and the message committed to the same
\* chatroom afterwards reached another connection but not this one.
C5_Witness ==
    \E s \in closed : \E t \in connected :
        /\ Len(inbox[s]) = 1
        /\ Len(inbox[t]) = 2
        /\ inbox[t][1] = inbox[s][1]
        /\ inbox[t][2].chatroom_id = inbox[s][1].chatroom_id
        /\ last.op = "create_message"
        /\ last.msg = inbox[t][2].id

\* A payload field that is absent or blank, and a payload that is a mapping
\* with both fields present and not blank.
Blank(v) == v = Absent \/ v = ""
ValidPayload(data) ==
    data.mapping /\ ~Blank(data.user_id) /\ ~Blank(data.chatroom_id)

\* The run emitted exactly one event: `event`, carrying chatroom_id `room`,
\* addressed to the sid the handler ran for.
Acknowledged(run, event, room) ==
    /\ Len(run.sent) = 1
    /\ run.sent[1].event = event
    /\ run.sent[1].data = [chatroom_id |-> room]
    /\ run.sent[1].room = run.sid

\* C6: join is idempotent on membership.  A valid join by a connection that
\* is a member of the room already is acknowledged with 'joined' (one event,
\* addressed to the issuer, no error) and leaves every room's member set as
\* it was.  (Who receives an event addressed to the issuer is C9's matter.)
C6_JoinIdempotent ==
    [][(/\ last'.op = "join"
        /\ ValidPayload(last'.data)
        /\ last'.sid \in rooms[last'.data.chatroom_id])
       => /\ rooms' = rooms
          /\ Acknowledged(last', "joined", last'.data.chatroom_id)
      ]_vars

\* C6 witness: a valid join by a member of the room was acknowledged with
\* 'joined' and changed nothing.
C6_Witness ==
    /\ last.op = "join"
    /\ ValidPayload(last.data)
    /\ Acknowledged(last, "joined", last.data.chatroom_id)
    /\ last.sid \in rooms[last.data.chatroom_id]
    /\ ~last.changed

\* C7: leave is idempotent.  A valid leave by a connection that is not a
\* member of the room is acknowledged with 'left' (one event, addressed to
\* the issuer, no error) and changes no membership.
C7_LeaveIdempotent ==
    [][(/\ last'.op = "leave"
        /\ ValidPayload(last'.data)
        /\ last'.sid \notin rooms[last'.data.chatroom_id])
       => /\ rooms' = rooms
          /\ Acknowledged(last', "left", last'.data.chatroom_id)
      ]_vars

\* C7 witness: a valid leave by a non-member was acknowledged with 'left'
\* and changed nothing.
C7_Witness ==
    /\ last.op = "leave"
    /\ ValidPayload(last.data)
    /\ Acknowledged(last, "left", last.data.chatroom_id)
    /\ last.sid \notin rooms[last.data.chatroom_id]
    /\ ~last.changed

\* C8: join/leave validation.  A join or leave whose payload lacks user_id
\* or chatroom_id, or has it blank (the empty string), changes no membership
\* and emits exactly one event: an error addressed to the issuer, saying
\* that user_id and chatroom_id are required.
C8_Validation ==
    [][(/\ last'.op \in {"join", "leave"}
        /\ last'.data.mapping
        /\ Blank(last'.data.user_id) \/ Blank(last'.data.chatroom_id))
       => /\ rooms' = rooms
          /\ Len(last'.sent) = 1
          /\ last'.sent[1].event = "error"
          /\ last'.sent[1].data =
                 [message |-> "user_id and chatroom_id are required"]
          /\ last'.sent[1].room = last'.sid
      ]_vars

\* C8 witness: a join with a blank user_id was answered with the error that
\* the two fields are required, and the room table is as it was.
C8_Witness ==
    /\ last.op = "join"
    /\ last.data.mapping
    /\ last.data.user_id = ""
    /\ ~Blank(last.data.chatroom_id)
    /\ Len(last.sent) = 1
    /\ last.sent[1].event = "error"
    /\ last.sent[1].data = [message |-> "user_id and chatroom_id are required"]
    /\ last.sent[1].to = {last.sid}
    /\ ~last.changed

\* C9: join acknowledgment to the issuer only.  After a valid join the
\* connection is a member of the room, exactly one 'joined' event carrying
\* the room was emitted, and it went to the issuer and to nobody else.
C9_JoinAckToIssuerOnly ==
    (last.op = "join" /\ ValidPayload(last.data))
    => /\ last.sid \in rooms[last.data.chatroom_id]
       /\ Acknowledged(last, "joined", last.data.chatroom_id)
       /\ last.sent[1].to = {last.sid}

\* C10: leave acknowledgment to the issuer only.  After a valid leave the
\* connection is not a member of the room, exactly one 'left' event carrying
\* the room was emitted, and it went to the issuer and to nobody else.
C10_LeaveAckToIssuerOnly ==
    (last.op = "leave" /\ ValidPayload(last.data))
    => /\ last.sid \notin rooms[last.data.chatroom_id]
       /\ Acknowledged(last, "left", last.data.chatroom_id)
       /\ last.sent[1].to = {last.sid}


\* C11: a delivery failure does not affect the write.  When the emit of
\* new_message raises, the row the request committed is in the table and
\* stays there (no rollback), the event was emitted once (no re-emit), and
\* the request is answered 201 with the created message.
C11_DeliveryFailureKeepsWrite ==
    [][/\ \A k \in 1..Len(messages) :
             k <= Len(messages') /\ messages'[k] = messages[k]
       /\ (last'.op = "create_message" /\ last'.raised)
          => /\ last'.status = 201
             /\ messages' # messages
             /\ messages'[Len(messages')].id = last'.msg
             /\ last'.body = <<FromOrm(messages'[Len(messages')])>>
             /\ Len(last'.sent) = 1
             /\ last'.sent[1].event = "new_message"
             /\ \A s \in Sids : Len(inbox'[s]) <= Len(inbox[s]) + 1
      ]_vars

\* C11 witness: the emit raised before it reached a member of the room; the
\* row is in the table and the request was answered 201 with the message.
C11_Witness ==
    /\ last.op = "create_message"
    /\ last.raised
    /\ last.status = 201
    /\ MessageExists(messages, last.msg)
    /\ last.body # <<>>
    /\ last.body[1].id = last.msg
    /\ \E s \in rooms[last.body[1].chatroom_id] : s \notin last.sent[1].to


\* The ids of the rows of the table.
RowIds(rows) == {rows[k].id : k \in 1..Len(rows)}

\* C12: exactly-once persistence.  A create_message answered 201 adds
\* exactly one row, with an id no row had; one answered 404 or 400 adds
\* none; no other step adds a row; and no two rows of the table ever have
\* the same id, whatever was posted, delivered or failed to be delivered.
C12_ExactlyOncePersistence ==
    [][/\ (last'.op = "create_message" /\ last'.status = 201)
          => /\ Len(messages') = Len(messages) + 1
             /\ SubSeq(messages', 1, Len(messages)) = messages
             /\ messages'[Len(messages')].id = last'.msg
             /\ last'.msg \notin RowIds(messages)
       /\ (last'.op = "create_message" /\ last'.status \in {400, 404})
          => messages' = messages
       /\ last'.op # "create_message" => messages' = messages
       /\ Cardinality(RowIds(messages')) = Len(messages')
      ]_vars

\* C12 witness: two requests were answered 201, the second one's emit
\* raised, and the table holds one row for each.
C12_Witness ==
    /\ last.op = "create_message"
    /\ last.status = 201
    /\ last.raised
    /\ Len(messages) = 2
    /\ messages[1].id # messages[2].id
    /\ messages[2].id = last.msg


\* The ids of the payloads of a connection's stream.
StreamIds(stream) == {stream[k].id : k \in 1..Len(stream)}

\* C13: at-most-once delivery, no retry.  A step gives a connection at most
\* one more new_message; the message is the one that very step committed
\* (so a message that failed to reach a connection is not sent to it by any
\* later step); and no connection's stream ever holds two payloads with the
\* same message id.
C13_AtMostOnceDelivery ==
    [][\A s \in Sids :
          /\ Received(s)
             => /\ inbox'[s] = Append(inbox[s], NewPayload(s))
                /\ last'.op = "create_message"
                /\ NewPayload(s).id = last'.msg
                /\ NewPayload(s).id \notin RowIds(messages)
                /\ NewPayload(s).id \notin StreamIds(inbox[s])
          /\ Cardinality(StreamIds(inbox'[s])) = Len(inbox'[s])
      ]_vars

\* C13 witness: the emit for the second message of a chatroom raised when it
\* had reached one member only; that member has both messages once each, the
\* other member has the first and was not sent the second.
C13_Witness ==
    /\ last.op = "create_message"
    /\ last.raised
    /\ Len(messages) = 2
    /\ messages[1].chatroom_id = messages[2].chatroom_id
    /\ \E s, t \in rooms[messages[2].chatroom_id] :
          /\ last.sent[1].to = {s}
          /\ s # t
          /\ Len(inbox[s]) = 2
          /\ inbox[s][1].id = messages[1].id
          /\ inbox[s][2].id = messages[2].id
          /\ Len(inbox[t]) = 1
          /\ inbox[t][1].id = messages[1].id


\* C14: end-to-end delivery.  A connection that joined a chatroom room
\* stays a member until it leaves that room or disconnects, and every
\* create_message answered 201 for the chatroom gives each member the
\* message as a new_message in that very step -- unless the emit raised
\* before it reached the member.
C14_EndToEndDelivery ==
    [][/\ \A c \in Sids, r \in SeqRange(ChatroomIdSeq) :
             /\ (/\ last'.op = "join" /\ last'.sid = c
                 /\ ValidPayload(last'.data) /\ last'.data.chatroom_id = r)
                => (c \in rooms'[r] /\ Acknowledged(last', "joined", r))
             /\ (c \in rooms[r] /\ c \notin rooms'[r])
                => /\ last'.sid = c
                   /\ \/ last'.op = "disconnect"
                      \/ last'.op = "leave" /\ last'.data.chatroom_id = r
       /\ (last'.op = "create_message" /\ last'.status = 201)
          => \A c \in rooms[last'.body[1].chatroom_id] :
                \/ /\ Received(c)
                   /\ inbox'[c] = Append(inbox[c], NewPayload(c))
                   /\ NewPayload(c).id = last'.msg
                \/ last'.raised /\ c \notin last'.sent[1].to
      ]_vars

\* C14 witness: two members of a chatroom that joined before anything was
\* posted have each received both of its messages.
C14_Witness ==
    /\ last.op = "create_message"
    /\ last.status = 201
    /\ ~last.raised
    /\ Len(messages) = 2
    /\ messages[1].chatroom_id = messages[2].chatroom_id
    /\ Cardinality(rooms[messages[2].chatroom_id]) = 2
    /\ \A c \in rooms[messages[2].chatroom_id] :
          /\ Len(inbox[c]) = 2
          /\ inbox[c][1].id = messages[1].id
          /\ inbox[c][2].id = messages[2].id


\* The six fields of a message agree between two records.
SameMessage(a, b) ==
    /\ a.id = b.id
    /\ a.message_text = b.message_text
    /\ a.user_id = b.user_id
    /\ a.chatroom_id = b.chatroom_id
    /\ a.is_reply = b.is_reply
    /\ a.parent_message_id = b.parent_message_id

\* C15: payload integrity.  Every new_message event create_message emits
\* carries the id, message_text, user_id, chatroom_id, is_reply and
\* parent_message_id of the row the request committed and of the response
\* it returns; the event is addressed to the room named by the payload's
\* chatroom_id; and what a connection receives is that payload.
C15_PayloadIntegrity ==
    [][(last'.op = "create_message" /\ last'.sent # <<>>)
       => /\ Len(last'.sent) = 1
          /\ last'.sent[1].event = "new_message"
          /\ messages' # <<>>
          /\ SameMessage(last'.sent[1].data, messages'[Len(messages')])
          /\ last'.body # <<>>
          /\ SameMessage(last'.sent[1].data, last'.body[1])
          /\ last'.sent[1].room = last'.sent[1].data.chatroom_id
          /\ \A s \in Sids :
                Received(s) => SameMessage(NewPayload(s),
                                           messages'[Len(messages')])
      ]_vars

\* C15 witness: a reply was committed and broadcast; the member of the
\* chatroom holds a payload that names the parent, as the row does.
C15_Witness ==
    /\ last.op = "create_message"
    /\ last.status = 201
    /\ Len(messages) = 2
    /\ messages[2].is_reply
    /\ messages[2].parent_message_id = messages[1].id
    /\ \E s \in last.sent[1].to :
          /\ inbox[s] # <<>>
          /\ SameMessage(inbox[s][Len(inbox[s])], messages[2])
          /\ SameMessage(last.body[1], messages[2])


\* C16: no existence check on join/leave.  A join or leave with non-blank
\* user_id and chatroom_id takes effect and is acknowledged whether or not
\* the store has a user or chatroom row with those ids, and leaves the
\* tables of the store as they were.
C16_NoExistenceCheck ==
    [][(last'.op \in {"join", "leave"} /\ ValidPayload(last'.data))
       => /\ last'.op = "join"
             => /\ last'.sid \in rooms'[last'.data.chatroom_id]
                /\ Acknowledged(last', "joined", last'.data.chatroom_id)
          /\ last'.op = "leave"
             => /\ last'.sid \notin rooms'[last'.data.chatroom_id]
                /\ Acknowledged(last', "left", last'.data.chatroom_id)
          /\ users' = users
          /\ chatrooms' = chatrooms
          /\ messages' = messages
          /\ deleted' = deleted
      ]_vars

\* C16 witness: a join naming a user and a chatroom that have no row was
\* acknowledged and made the connection a member.
C16_Witness ==
    /\ last.op = "join"
    /\ ValidPayload(last.data)
    /\ last.data.user_id \notin users
    /\ last.data.chatroom_id \notin chatrooms
    /\ last.sid \in rooms[last.data.chatroom_id]
    /\ last.changed
    /\ Acknowledged(last, "joined", last.data.chatroom_id)


\* C17: reply invariant.  In every reachable state of the store, after any
\* sequence of create_message and delete_message, a message row has
\* is_reply true if and only if its parent_message_id is set and is the id
\* of a row of the table.
C17_ReplyInvariant ==
    \A k \in 1..Len(messages) :
       messages[k].is_reply
       <=> /\ messages[k].parent_message_id # NoParent
           /\ MessageExists(messages, messages[k].parent_message_id)


\* The request names a user, a chatroom or (being a reply) a parent message
\* that has no row.
NamesMissingRow(req) ==
    \/ req.user_id \notin users
    \/ req.chatroom_id \notin chatrooms
    \/ /\ req.is_reply
       /\ req.parent_message_id # NoParent
       /\ ~MessageExists(messages, req.parent_message_id)

\* C18: not-found on create_message.  A request whose user_id, chatroom_id
\* or, for a reply, parent_message_id is not the id of a row is answered
\* 404, adds no message row, emits no new_message and delivers nothing.
C18_NotFound ==
    [][(last'.op = "create_message" /\ NamesMissingRow(last'.data))
       => /\ last'.status = 404
          /\ last'.body = <<>>
          /\ messages' = messages
          /\ last'.sent = <<>>
          /\ inbox' = inbox
      ]_vars

\* C18 witness: a reply by an existing user in an existing chatroom named a
\* parent that has no row (others have) and was answered 404.
C18_Witness ==
    /\ last.op = "create_message"
    /\ last.status = 404
    /\ last.data.user_id \in users
    /\ last.data.chatroom_id \in chatrooms
    /\ last.data.is_reply
    /\ last.data.parent_message_id # NoParent
    /\ ~MessageExists(messages, last.data.parent_message_id)
    /\ messages # <<>>
    /\ last.sent = <<>>


\* Two rows of chatroom_participants for one (user, chatroom) pair.
SamePair(p, q) == p.user_id = q.user_id /\ p.chatroom_id = q.chatroom_id

\* The request of the step asks for a pair that has a row already.
AsksTakenPair ==
    /\ last'.op = "create_chatroom_participant"
    /\ PairTaken(participants, last'.data.user_id, last'.data.chatroom_id)

\* C19: durable participant uniqueness.  In every reachable state of the
\* store no two rows of chatroom_participants hold the same (user, chatroom)
\* pair, and a create_chatroom_participant for a pair that has a row is
\* answered 409 and leaves every table as it was.
C19_ParticipantUniqueness ==
    /\ [](\A p, q \in participants : SamePair(p, q) => p = q)
    /\ [][AsksTakenPair =>
            /\ last'.status = 409
            /\ UNCHANGED <<users, chatrooms, messages, deleted, keys>>]_vars


\* No two rows of the column hold the same key.
KeysDistinct(column) ==
    \A x, y \in DOMAIN column : column[x] = column[y] => x = y

\* The request of the step creates a row in `table` whose key, lowercased
\* and trimmed, is the key some row of `column` holds.
AsksTakenKey(table, column) ==
    /\ last'.op = table
    /\ Taken(column, Normalized(last'.data.key))

\* C20: unique normalized key.  Creating a user whose handle, or a chatroom
\* whose name, after lowercasing and trimming equals the stored handle
\* (name) of an existing user (chatroom) is answered 409, the answer of the
\* 'already exists' branch, and adds no row; so no two users ever share a
\* handle and no two chatrooms ever share a name.
C20_UniqueNormalizedKey ==
    /\ [](KeysDistinct(handles) /\ KeysDistinct(names))
    /\ [][AsksTakenKey("create_user", handles)
            \/ AsksTakenKey("create_chatroom", names) =>
            /\ last'.status = 409
            /\ UNCHANGED <<users, chatrooms, keys>>]_vars


\* C21: user deletion cascade.  Once delete_user has succeeded for a user,
\* no row of chatroom_participants and no row of messages names that user.
C21_UserDeletionCascade ==
    \A user_id \in removed.users :
        /\ ParticipantRowsOf("user_id", user_id) = {}
        /\ MessageRowsOf("user_id", user_id) = {}


\* How many times the stream holds the message `id`.
Copies(stream, id) ==
    Cardinality({k \in 1..Len(stream) : stream[k].id = id})

\* The step is a send of the awaited emit that fails: the connection it is
\* for is gone.
SendFails ==
    /\ flight # <<>>
    /\ last'.op = "send"
    /\ last'.sid \notin connected

LeftRoom(run, room) ==
    run.op = "leave" /\ Acknowledged(run, "left", room)

\* C23: snapshot semantics.  The broadcast of a message to its room sends
\* nothing to a connection that is not in the room when the broadcast
\* begins, in particular not to the connection whose leave of the room was
\* the last thing to complete before it; and a join delivers no message:
\* what was broadcast before the join is not replayed.
C23_SnapshotSemantics ==
    [][/\ last'.op = "create_message" =>
            /\ \A s \in Sids :
                  s \notin rooms[last'.data.chatroom_id] =>
                      inbox'[s] = inbox[s]
            /\ LeftRoom(last, last'.data.chatroom_id) =>
                  inbox'[last.sid] = inbox[last.sid]
       /\ last'.op = "join" => inbox' = inbox
      ]_vars

\* C23 witness: s1 was sent the first message of r1 and not the second,
\* which s2 was sent, and has now joined r1 (again) without being sent it.
C23_Witness ==
    /\ last.op = "join"
    /\ last.sid = "s1"
    /\ "s1" \in rooms["r1"]
    /\ Len(messages) = 2
    /\ \A k \in 1..2 : messages[k].chatroom_id = "r1"
    /\ StreamIds(inbox["s1"]) = {messages[1].id}
    /\ StreamIds(inbox["s2"]) = {messages[1].id, messages[2].id}


\* C24: concurrent leave or disconnect is safe.  Whatever joins, leaves and
\* disconnects ran while the emit of a post was awaited, the post is
\* answered 201, every connection the emit found in the room that is still
\* connected has the message exactly once, and no connection has it more
\* than once.
C24_ConcurrentLeaveSafe ==
    [][IF flight = <<>> \/ last'.op # "create_message" THEN TRUE
       ELSE LET f == flight[1]
            IN /\ last'.status = 201
               /\ \A s \in f.emitted.to \cap connected' :
                     Copies(inbox'[s], f.id) = 1
               /\ \A s \in Sids : Copies(inbox'[s], f.id) <= 1
      ]_vars

\* C24 witness: the emit found s1, s2 and s3 in r1; while it was awaited s1
\* disconnected before its send and s3 left the room; the post has ended
\* with the message sent to s2 and s3.
C24_Witness ==
    /\ last.op = "create_message"
    /\ last.status = 201
    /\ flight # <<>>
    /\ flight[1].done
    /\ flight[1].emitted.to = {"s1", "s2", "s3"}
    /\ flight[1].reached = {"s2", "s3"}
    /\ "s1" \in closed
    /\ "s3" \in connected
    /\ "s3" \notin rooms["r1"]
    /\ Copies(inbox["s2"], flight[1].id) = 1


SocketOps == {"connect", "disconnect", "join", "leave"}
ParticipantOps ==
    {"create_chatroom_participant", "delete_chatroom_participant",
     "remove_user_from_chatroom"}

\* C25: live membership and durable participation are independent.  A
\* join, leave or disconnect leaves table chatroom_participants as it was,
\* and creating or deleting a row of the table leaves every room's member
\* set as it was.
C25_LiveAndDurableIndependent ==
    [][/\ last'.op \in SocketOps => participants' = participants
       /\ last'.op \in ParticipantOps => rooms' = rooms
      ]_vars

\* C25 witness: the only participant row of the first chatroom has just
\* been deleted while a connection is a member of the chatroom's room, and
\* it still is.
C25_Witness ==
    /\ last.op \in {"delete_chatroom_participant", "remove_user_from_chatroom"}
    /\ last.status = 200
    /\ participants = {}
    /\ rooms["r1"] = {"s1"}


\* The rooms other than its own that the connection is a member of.
JoinedRooms(table, sid) == {r \in DOMAIN table \ {sid} : sid \in table[r]}

\* C26: disconnect tolerance.  The disconnect of a connection that has
\* joined no room sends no error and leaves the members of every room but
\* the connection's own as they were; a second disconnect of the same
\* connection sends no error and changes nothing at all.
C26_DisconnectTolerance ==
    [][last'.op = "disconnect" =>
          /\ last'.sent = <<>> /\ ~last'.raised
          /\ JoinedRooms(rooms, last'.sid) = {} =>
                \A r \in RoomNames \ {last'.sid} : rooms'[r] = rooms[r]
          /\ last'.sid \in closed =>
                UNCHANGED <<connected, closed, rooms, inbox, users,
                            chatrooms, messages, deleted, keys>>
      ]_vars

\* C26 witness: s1 never joined a room and has been disconnected twice,
\* while s2 is still a member of r1.
C26_Witness ==
    /\ last.op = "disconnect"
    /\ last.sid = "s1"
    /\ ~last.changed
    /\ "s1" \in closed
    /\ rooms["r1"] = {"s2"}


SentError(run) == \E k \in 1..Len(run.sent) : run.sent[k].event = "error"

C29_MembershipFrame ==
    [][last'.op \in {"join", "leave"} =>
          \A r \in RoomNames : \A s \in Sids :
              (r # last'.data.chatroom_id \/ s # last'.sid) =>
                  (s \in rooms'[r] <=> s \in rooms[r])
      ]_vars

\* C29 witness: s1 and s2 are in r1, and s1 has just joined r2 as well.
C29_Witness ==
    /\ last.op = "join"
    /\ last.sid = "s1"
    /\ last.data.chatroom_id = "r2"
    /\ last.changed
    /\ rooms["r1"] = {"s1", "s2"}
    /\ rooms["r2"] = {"s1"}


=============================================================================
